---- MODULE Spec2Model ----
(***************************************************************************)
(* Model of the two /dev/mem register test programs of basebandboard:      *)
(*   software/axi3test/axi3_h2f_lw.c  (HPS-to-FPGA lightweight bridge)     *)
(*   software/axi3test/gpigpo.c       (FPGA manager GPI/GPO)               *)
(* Each program opens /dev/mem, maps one physical window, forms four       *)
(* register pointers and then polls forever: store the LED counter to one  *)
(* register, load four registers, display them.                            *)
(*                                                                         *)
(* 32-bit quantities (addresses, uint32_t values) are kept as two 16-bit   *)
(* limbs <<hi, lo>>, value = hi * 2^16 + lo, so that the arithmetic of the *)
(* 32-bit target is exact and wraps at 2^32.                               *)
(***************************************************************************)
EXTENDS Integers, Sequences, FiniteSets, TLC

VARIABLES
    running,    \* the programs that have been started
    pc,         \* pc[p]: position of program p in main()
    fd,         \* fd[p]: the local `fd`
    win,        \* win[p]: the local `h2f_lw` / `fpga_manager`
    reg,        \* reg[p]: the four register pointers, in declaration order
    leds,       \* leds[p]: the local `leds`
    r,          \* r[p]: the values loaded in the current iteration
    shown,      \* shown[p]: the four values on the display line
    msg,        \* msg[p]: the last message line printed
    status,     \* status[p]: exit status of the process, -1 while it runs
    handles,    \* handles[p]: descriptors open in the process
    maps,       \* maps[p]: live mappings of the process
    mem,        \* physical memory, byte address -> byte
    nOpen,      \* nOpen[p]: calls of open()
    nMmap,      \* nMmap[p]: calls of mmap()
    nMunmap,    \* nMunmap[p]: calls of munmap()
    nClose,     \* nClose[p]: calls of close()
    accesses,   \* accesses[p]: register accesses of the current iteration
    iters,      \* iters[p]: completed iterations, counted up to MaxCount
    nStores,    \* nStores[p]: stores that reached the window, while counted
    nLoads,     \* nLoads[p]: loads that reached the window, while counted
    hwOn,       \* the registers are driven by hardware, not a plain store
    hwWrites,   \* register changes the hardware has made
    held        \* held[p]: the register tuples the window of p has held

vars == <<running, pc, fd, win, reg, leds, r, shown, msg, status, handles,
          maps, mem, nOpen, nMmap, nMunmap, nClose, accesses, iters, nStores,
          nLoads, hwOn, hwWrites, held>>

-----------------------------------------------------------------------------
(* Bounds of the model *)

\* iterations of the polling loop each program makes when both run together
MaxConcIters == 3

\* iterations whose accesses are counted
MaxCount == 3

\* iterations of the polling loop a program makes next to the hardware
MaxHwIters == 2

\* register changes the hardware makes in a run
MaxHwWrites == 2

-----------------------------------------------------------------------------
(* 32-bit arithmetic on <<hi, lo>> limbs *)

Limb == 65536

U32 == (0 .. Limb - 1) \X (0 .. Limb - 1)

\* a + n modulo 2^32, for an integer n with |n| < 2^31
U32Add(a, n) ==
    LET s == a[2] + n
    IN  <<(a[1] + (s \div Limb)) % Limb, s % Limb>>

\* a < b as unsigned 32-bit numbers
U32Less(a, b) == a[1] < b[1] \/ (a[1] = b[1] /\ a[2] < b[2])

U32Leq(a, b) == a = b \/ U32Less(a, b)

\* b - a as an integer, when 0 <= b - a < 2^31
U32Diff(a, b) == (b[1] - a[1]) * Limb + (b[2] - a[2])

-----------------------------------------------------------------------------
(* The programs and their constants *)

Axi == "axi3_h2f_lw"
Gpi == "gpigpo"
Progs == {Axi, Gpi}

H2F_LW_BASE == <<\hFF20, \h0000>>
H2F_LW_SIZE == \h00200000

FPGA_MANAGER_BASE == <<\hFF70, \h6000>>
FPGA_MANAGER_SIZE == \h1C

FPGA_MANAGER_STAT == \h00
FPGA_MANAGER_CTRL == \h04
FPGA_MANAGER_GPO  == \h10
FPGA_MANAGER_GPI  == \h14

\* both programs mapping the bridge base
PhysBase_Same(p) == H2F_LW_BASE

\* the physical base passed to mmap
PhysBase(p) == IF p = Axi THEN H2F_LW_BASE ELSE FPGA_MANAGER_BASE

\* the length passed to mmap
WinSize(p) == IF p = Axi THEN H2F_LW_SIZE ELSE FPGA_MANAGER_SIZE

\* the GPI offset mistyped as 0x1A
RegOffset_Typo(p) ==
    IF p = Axi THEN <<0, 4, 8, 12>>
    ELSE <<FPGA_MANAGER_STAT, FPGA_MANAGER_CTRL, FPGA_MANAGER_GPO, \h1A>>

\* offsets of the four register pointers, in declaration order:
\* reg0, reg1, reg2, reg3  /  status, control, gpo, gpi
RegOffset(p) ==
    IF p = Axi THEN <<0, 4, 8, 12>>
    ELSE <<FPGA_MANAGER_STAT, FPGA_MANAGER_CTRL,
           FPGA_MANAGER_GPO, FPGA_MANAGER_GPI>>

\* the store going through the neighbouring pointer: reg1 / gpi
StoreReg_Neighbour(p) == IF p = Axi THEN 2 ELSE 4

\* index of the pointer the loop stores through: reg0 / gpo
StoreReg(p) == IF p = Axi THEN 1 ELSE 3

\* gpigpo loading in the order of the declarations: status, control, gpo, gpi
LoadOrder_Declared(p) == <<1, 2, 3, 4>>

\* indices of the pointers the loop loads through, in program order:
\* reg0, reg1, reg2, reg3  /  status, control, gpi, gpo
LoadOrder(p) == IF p = Axi THEN <<1, 2, 3, 4>> ELSE <<1, 2, 4, 3>>

OpenErrorMsg == "Error opening /dev/mem\n"
MmapErrorMsg == "Error performing mmap\n"
HeaderMsg(p) ==
    IF p = Axi THEN "Reg0       | Reg1       | Reg2       | Reg3\n"
    ELSE "Status     | Control    | GPI        | GPO\n"

\* (void *) -1
MAP_FAILED == <<\hFFFF, \hFFFF>>

NULL == <<0, 0>>


-----------------------------------------------------------------------------
(* The platform: descriptors, mappings, physical memory *)

\* stdin, stdout, stderr
StdHandles == {0, 1, 2}

\* open() returns the lowest descriptor that is not open
LowestFree(h) ==
    CHOOSE n \in 0 .. Cardinality(h) :
        n \notin h /\ \A m \in 0 .. n - 1 : m \in h

\* close(f) on the descriptor table h
CloseHandle(h, f) == h \ {f}

\* addresses at which the kernel may place a new mapping (page aligned)
VirtBases == {<<\h76F0, \h0000>>, <<\h76D5, \hF000>>}

\* the established mapping: mmap(NULL, len, ..., MAP_SHARED, fd, pa)
Mapping(v, len, pa) == [va |-> v, len |-> len, pa |-> pa]

\* offsets of the words of each window whose contents are kept
ModelledOffsets(p) ==
    IF p = Axi THEN {0, 4, 8, 12, H2F_LW_SIZE - 4}
    ELSE {o \in 0 .. FPGA_MANAGER_SIZE - 4 : o % 4 = 0}

PhysBytes ==
    UNION { UNION { {U32Add(PhysBase(p), o + k) : k \in 0 .. 3}
                    : o \in ModelledOffsets(p) } : p \in Progs }

\* what the registers may hold when a program starts
InitMems ==
    { [a \in PhysBytes |-> 0],
      [a \in PhysBytes |-> (a[1] + a[2]) % 256] }

\* the 4 bytes [ptr, ptr + 4) lie in a live mapping of process p
InWindow(p, ptr) ==
    \E m \in maps[p] :
        /\ U32Leq(m.va, ptr)
        /\ U32Less(ptr, U32Add(ptr, 4))
        /\ U32Leq(U32Add(ptr, 4), U32Add(m.va, m.len))

\* the physical address behind the virtual address ptr of process p
Phys(p, ptr) ==
    LET m == CHOOSE m \in maps[p] :
                 U32Leq(m.va, ptr) /\ U32Less(ptr, U32Add(m.va, m.len))
    IN  U32Add(m.pa, U32Diff(m.va, ptr))

ReadByte(m, a) == IF a \in DOMAIN m THEN m[a] ELSE 0

\* byte k (0 = least significant) of the 32-bit value v
ByteOf(v, k) ==
    IF k = 0 THEN v[2] % 256
    ELSE IF k = 1 THEN v[2] \div 256
    ELSE IF k = 2 THEN v[1] % 256
    ELSE v[1] \div 256

\* a store of one byte, *(uint8_t *)a = v
Store32_Byte(m, a, v) == [m EXCEPT ![a] = ByteOf(v, 0)]

\* *(uint32_t *)a = v  on the little-endian target: an echoing store
\* (bytes outside the modelled words are not kept)
Store32(m, a, v) ==
    [m EXCEPT ![a] = ByteOf(v, 0),
              ![U32Add(a, 1)] = ByteOf(v, 1),
              ![U32Add(a, 2)] = ByteOf(v, 2),
              ![U32Add(a, 3)] = ByteOf(v, 3)]

\* *(uint32_t *)a
Load32(m, a) ==
    << ReadByte(m, U32Add(a, 3)) * 256 + ReadByte(m, U32Add(a, 2)),
       ReadByte(m, U32Add(a, 1)) * 256 + ReadByte(m, a) >>

-----------------------------------------------------------------------------
(* Pieces of main() *)

\* arithmetic on uint32_t * instead of void *: the offset counts words
register_pointer_Scaled(base, off) == U32Add(base, 4 * off)

\* h2f_lw + off  (byte arithmetic on void *)
register_pointer(base, off) == U32Add(base, off)

\* leds after `if(++leds == 0xFF) { leds = 0; }`: compared after the increment
NextLeds_Pre(l) ==
    IF U32Add(l, 1) = <<0, \hFF>> THEN <<0, 0>> ELSE U32Add(l, 1)

\* leds after `if(leds++ == 0xFF) { leds = 0; }`
NextLeds(l) == IF l = <<0, \hFF>> THEN <<0, 0>> ELSE U32Add(l, 1)

LoadPc == <<"load1", "load2", "load3", "load4">>

Access(op, off, val) == [op |-> op, off |-> off, val |-> val]

\* a count of accesses or iterations, kept for the first MaxCount iterations
Counted(p, n, d) == IF iters[p] < MaxCount THEN n + d ELSE n

\* what the four registers of p hold in memory m, in declaration order
RegView(p, m) ==
    [i \in 1 .. 4 |-> Load32(m, U32Add(PhysBase(p), RegOffset(p)[i]))]

\* the register tuples the windows have held, once memory has become m
\* (kept when hardware drives the registers)
Holding(p, h, m) ==
    IF hwOn THEN [q \in Progs |-> h[q] \cup {RegView(q, m)}] ELSE h

\* values the hardware may put into a register
HwValues == {<<\hA5A5, \h5A5A>>}

-----------------------------------------------------------------------------
(* Initial states *)

InitLocals ==
    /\ pc = [p \in Progs |-> IF p \in running THEN "open" ELSE "idle"]
    /\ fd = [p \in Progs |-> 0]
    /\ win = [p \in Progs |-> NULL]
    /\ reg = [p \in Progs |-> [i \in 1 .. 4 |-> NULL]]
    /\ leds = [p \in Progs |-> <<0, 0>>]
    /\ r = [p \in Progs |-> [i \in 1 .. 4 |-> <<0, 0>>]]
    /\ shown = [p \in Progs |-> [i \in 1 .. 4 |-> <<0, 0>>]]
    /\ msg = [p \in Progs |-> ""]
    /\ status = [p \in Progs |-> -1]
    /\ handles = [p \in Progs |-> StdHandles]
    /\ maps = [p \in Progs |-> {}]
    /\ mem \in InitMems
    /\ nOpen = [p \in Progs |-> 0]
    /\ nMmap = [p \in Progs |-> 0]
    /\ nMunmap = [p \in Progs |-> 0]
    /\ nClose = [p \in Progs |-> 0]
    /\ accesses = [p \in Progs |-> <<>>]
    /\ iters = [p \in Progs |-> 0]
    /\ nStores = [p \in Progs |-> 0]
    /\ nLoads = [p \in Progs |-> 0]
    /\ hwWrites = 0
    /\ held = [p \in Progs |-> IF hwOn THEN {RegView(p, mem)} ELSE {}]

\* one of the two programs is run
Init ==
    /\ running \in {{Axi}, {Gpi}}
    /\ hwOn = FALSE
    /\ InitLocals

\* one of the two programs is run against registers the hardware changes
HwInit ==
    /\ running \in {{Axi}, {Gpi}}
    /\ hwOn = TRUE
    /\ InitLocals

\* both programs are run at the same time
ConcInit ==
    /\ running = Progs
    /\ hwOn = FALSE
    /\ InitLocals

-----------------------------------------------------------------------------
(* The steps of main() of program p *)

\* fd = open("/dev/mem", O_RDWR|O_SYNC) succeeds
OpenOk(p) ==
    /\ pc[p] = "open"
    /\ LET f == LowestFree(handles[p])
       IN  /\ fd' = [fd EXCEPT ![p] = f]
           /\ handles' = [handles EXCEPT ![p] = @ \cup {f}]
    /\ nOpen' = [nOpen EXCEPT ![p] = @ + 1]
    /\ pc' = [pc EXCEPT ![p] = "mmap"]
    /\ UNCHANGED <<running, hwOn, hwWrites, win, reg, leds, r, shown, msg,
                   status, maps, mem, nMmap, nMunmap, nClose, accesses, iters,
                   nStores, nLoads, held>>

\* OpenFail without the `return 1`: control falls through to mmap
OpenFail_FallThrough(p) ==
    /\ pc[p] = "open"
    /\ fd' = [fd EXCEPT ![p] = -1]
    /\ nOpen' = [nOpen EXCEPT ![p] = @ + 1]
    /\ msg' = [msg EXCEPT ![p] = OpenErrorMsg]
    /\ pc' = [pc EXCEPT ![p] = "mmap"]
    /\ UNCHANGED <<running, hwOn, hwWrites, win, reg, leds, r, shown, status,
                   handles, maps, mem, nMmap, nMunmap, nClose, accesses,
                   iters, nStores, nLoads, held>>

\* OpenFail that tries again instead of returning
OpenFail_Retry(p) ==
    /\ pc[p] = "open"
    /\ nOpen[p] < 3
    /\ fd' = [fd EXCEPT ![p] = -1]
    /\ nOpen' = [nOpen EXCEPT ![p] = @ + 1]
    /\ msg' = [msg EXCEPT ![p] = OpenErrorMsg]
    /\ pc' = [pc EXCEPT ![p] = "open"]
    /\ UNCHANGED <<running, hwOn, hwWrites, win, reg, leds, r, shown, status,
                   handles, maps, mem, nMmap, nMunmap, nClose, accesses,
                   iters, nStores, nLoads, held>>

\* open() returns -1: print the message, return 1
OpenFail(p) ==
    /\ pc[p] = "open"
    /\ fd' = [fd EXCEPT ![p] = -1]
    /\ nOpen' = [nOpen EXCEPT ![p] = @ + 1]
    /\ msg' = [msg EXCEPT ![p] = OpenErrorMsg]
    /\ status' = [status EXCEPT ![p] = 1]
    /\ pc' = [pc EXCEPT ![p] = "exit"]
    /\ UNCHANGED <<running, hwOn, hwWrites, win, reg, leds, r, shown, handles,
                   maps, mem, nMmap, nMunmap, nClose, accesses, iters,
                   nStores, nLoads, held>>

\* h2f_lw = mmap(NULL, SIZE, PROT_READ|PROT_WRITE, MAP_SHARED, fd, BASE)
\* succeeds; the kernel needs fd to be an open descriptor
MmapOk(p) ==
    /\ pc[p] = "mmap"
    /\ fd[p] \in handles[p]
    /\ \E v \in VirtBases :
         /\ win' = [win EXCEPT ![p] = v]
         /\ maps' = [maps EXCEPT
                       ![p] = @ \cup {Mapping(v, WinSize(p), PhysBase(p))}]
    /\ nMmap' = [nMmap EXCEPT ![p] = @ + 1]
    /\ pc' = [pc EXCEPT ![p] = "regs"]
    /\ UNCHANGED <<running, hwOn, hwWrites, fd, reg, leds, r, shown, msg,
                   status, handles, mem, nOpen, nMunmap, nClose, accesses,
                   iters, nStores, nLoads, held>>

\* MmapFail without the close(fd)
MmapFail_Leak(p) ==
    /\ pc[p] = "mmap"
    /\ win' = [win EXCEPT ![p] = MAP_FAILED]
    /\ nMmap' = [nMmap EXCEPT ![p] = @ + 1]
    /\ msg' = [msg EXCEPT ![p] = MmapErrorMsg]
    /\ status' = [status EXCEPT ![p] = 1]
    /\ pc' = [pc EXCEPT ![p] = "exit"]
    /\ UNCHANGED <<running, hwOn, hwWrites, fd, reg, leds, r, shown, handles,
                   maps, mem, nOpen, nMunmap, nClose, accesses, iters,
                   nStores, nLoads, held>>

\* MmapFail without the `return 1`: control falls through to the registers
MmapFail_NoReturn(p) ==
    /\ pc[p] = "mmap"
    /\ win' = [win EXCEPT ![p] = MAP_FAILED]
    /\ nMmap' = [nMmap EXCEPT ![p] = @ + 1]
    /\ msg' = [msg EXCEPT ![p] = MmapErrorMsg]
    /\ handles' = [handles EXCEPT ![p] = CloseHandle(@, fd[p])]
    /\ nClose' = [nClose EXCEPT ![p] = @ + 1]
    /\ pc' = [pc EXCEPT ![p] = "regs"]
    /\ UNCHANGED <<running, hwOn, hwWrites, fd, reg, leds, r, shown, status,
                   maps, mem, nOpen, nMunmap, accesses, iters, nStores,
                   nLoads, held>>

\* MmapFail printing the message of the open failure
MmapFail_WrongMsg(p) ==
    /\ pc[p] = "mmap"
    /\ win' = [win EXCEPT ![p] = MAP_FAILED]
    /\ nMmap' = [nMmap EXCEPT ![p] = @ + 1]
    /\ msg' = [msg EXCEPT ![p] = OpenErrorMsg]
    /\ handles' = [handles EXCEPT ![p] = CloseHandle(@, fd[p])]
    /\ nClose' = [nClose EXCEPT ![p] = @ + 1]
    /\ status' = [status EXCEPT ![p] = 1]
    /\ pc' = [pc EXCEPT ![p] = "exit"]
    /\ UNCHANGED <<running, hwOn, hwWrites, fd, reg, leds, r, shown, maps,
                   mem, nOpen, nMunmap, accesses, iters, nStores, nLoads,
                   held>>

\* mmap() returns MAP_FAILED: print the message, close(fd), return 1
MmapFail(p) ==
    /\ pc[p] = "mmap"
    /\ win' = [win EXCEPT ![p] = MAP_FAILED]
    /\ nMmap' = [nMmap EXCEPT ![p] = @ + 1]
    /\ msg' = [msg EXCEPT ![p] = MmapErrorMsg]
    /\ handles' = [handles EXCEPT ![p] = CloseHandle(@, fd[p])]
    /\ nClose' = [nClose EXCEPT ![p] = @ + 1]
    /\ status' = [status EXCEPT ![p] = 1]
    /\ pc' = [pc EXCEPT ![p] = "exit"]
    /\ UNCHANGED <<running, hwOn, hwWrites, fd, reg, leds, r, shown, maps,
                   mem, nOpen, nMunmap, accesses, iters, nStores, nLoads,
                   held>>

\* reg0 = h2f_lw + 0; ... reg3 = h2f_lw + 12; leds = 0; print the header
GetPointers(p) ==
    /\ pc[p] = "regs"
    /\ reg' = [reg EXCEPT
                 ![p] = [i \in 1 .. 4 |->
                            register_pointer(win[p], RegOffset(p)[i])]]
    /\ leds' = [leds EXCEPT ![p] = <<0, 0>>]
    /\ msg' = [msg EXCEPT ![p] = HeaderMsg(p)]
    /\ pc' = [pc EXCEPT ![p] = "loop"]
    /\ UNCHANGED <<running, hwOn, hwWrites, fd, win, r, shown, status,
                   handles, maps, mem, nOpen, nMmap, nMunmap, nClose,
                   accesses, iters, nStores, nLoads, held>>

\* while(true) { if(leds++ == 0xFF) { leds = 0; }
Increment(p) ==
    /\ pc[p] = "loop"
    /\ leds' = [leds EXCEPT ![p] = NextLeds(@)]
    /\ accesses' = [accesses EXCEPT ![p] = <<>>]
    /\ pc' = [pc EXCEPT ![p] = "store"]
    /\ UNCHANGED <<running, hwOn, hwWrites, fd, win, reg, r, shown, msg,
                   status, handles, maps, mem, nOpen, nMmap, nMunmap, nClose,
                   iters, nStores, nLoads, held>>

\* Store with the store moved out of the loop: only the first iteration
\* stores
Store_Hoisted(p) ==
    /\ pc[p] = "store"
    /\ LET ptr == reg[p][StoreReg(p)]
       IN  IF iters[p] > 0
           THEN /\ pc' = [pc EXCEPT ![p] = LoadPc[1]]
                /\ UNCHANGED <<mem, accesses, nStores, held, status>>
           ELSE IF InWindow(p, ptr)
           THEN /\ mem' = Store32(mem, Phys(p, ptr), leds[p])
                /\ accesses' =
                     [accesses EXCEPT
                        ![p] = Append(@, Access("store",
                                   U32Diff(PhysBase(p), Phys(p, ptr)),
                                   leds[p]))]
                /\ nStores' = [nStores EXCEPT ![p] = Counted(p, @, 1)]
                /\ held' = Holding(p, held, mem')
                /\ pc' = [pc EXCEPT ![p] = LoadPc[1]]
                /\ UNCHANGED status
           ELSE /\ pc' = [pc EXCEPT ![p] = "fault"]
                /\ status' = [status EXCEPT ![p] = 139]
                /\ UNCHANGED <<mem, accesses, nStores, held>>
    /\ UNCHANGED <<running, hwOn, hwWrites, fd, win, reg, leds, r, shown, msg,
                   handles, maps, nOpen, nMmap, nMunmap, nClose, iters,
                   nLoads>>

\* *(uint32_t*)reg0 = leds;   (gpigpo: *(uint32_t*)gpo = leds;)
\* a store outside every live mapping ends the process with SIGSEGV
Store(p) ==
    /\ pc[p] = "store"
    /\ LET ptr == reg[p][StoreReg(p)]
       IN  IF InWindow(p, ptr)
           THEN /\ mem' = Store32(mem, Phys(p, ptr), leds[p])
                /\ accesses' =
                     [accesses EXCEPT
                        ![p] = Append(@, Access("store",
                                   U32Diff(PhysBase(p), Phys(p, ptr)),
                                   leds[p]))]
                /\ nStores' = [nStores EXCEPT ![p] = Counted(p, @, 1)]
                /\ held' = Holding(p, held, mem')
                /\ pc' = [pc EXCEPT ![p] = LoadPc[1]]
                /\ UNCHANGED status
           ELSE /\ pc' = [pc EXCEPT ![p] = "fault"]
                /\ status' = [status EXCEPT ![p] = 139]
                /\ UNCHANGED <<mem, accesses, nStores, held>>
    /\ UNCHANGED <<running, hwOn, hwWrites, fd, win, reg, leds, r, shown, msg,
                   handles, maps, nOpen, nMmap, nMunmap, nClose, iters,
                   nLoads>>

\* Load with the loads moved out of the loop: later iterations reuse the
\* values of the first
Load_Hoisted(p) ==
    \E k \in 1 .. 4 :
      /\ pc[p] = LoadPc[k]
      /\ LET ptr == reg[p][LoadOrder(p)[k]]
         IN  IF iters[p] > 0
             THEN /\ pc' = [pc EXCEPT
                             ![p] = IF k < 4 THEN LoadPc[k + 1]
                                    ELSE "display"]
                  /\ UNCHANGED <<r, shown, accesses, nLoads, status>>
             ELSE IF InWindow(p, ptr)
             THEN LET v == Load32(mem, Phys(p, ptr))
                  IN  /\ r' = [r EXCEPT ![p][k] = v]
                      /\ shown' = IF p = Gpi
                                  THEN [shown EXCEPT ![p][k] = v]
                                  ELSE shown
                      /\ accesses' =
                           [accesses EXCEPT
                              ![p] = Append(@, Access("load",
                                         U32Diff(PhysBase(p), Phys(p, ptr)),
                                         v))]
                      /\ nLoads' = [nLoads EXCEPT ![p] = Counted(p, @, 1)]
                      /\ pc' = [pc EXCEPT
                                  ![p] = IF k < 4 THEN LoadPc[k + 1]
                                         ELSE "display"]
                      /\ UNCHANGED status
             ELSE /\ pc' = [pc EXCEPT ![p] = "fault"]
                  /\ status' = [status EXCEPT ![p] = 139]
                  /\ UNCHANGED <<r, shown, accesses, nLoads>>
      /\ UNCHANGED <<running, hwOn, hwWrites, fd, win, reg, leds, msg,
                     handles, maps, mem, nOpen, nMmap, nMunmap, nClose, iters,
                     nStores, held>>

\* the k-th load of the iteration:
\*   r0 = *(uint32_t*)reg0; ... r3 = *(uint32_t*)reg3;
\*   (gpigpo: printf("0x%08X | ", *(uint32_t*)status); ... the value is
\*    printed as soon as it is loaded)
Load(p) ==
    \E k \in 1 .. 4 :
      /\ pc[p] = LoadPc[k]
      /\ LET ptr == reg[p][LoadOrder(p)[k]]
         IN  IF InWindow(p, ptr)
             THEN LET v == Load32(mem, Phys(p, ptr))
                  IN  /\ r' = [r EXCEPT ![p][k] = v]
                      /\ shown' = IF p = Gpi
                                  THEN [shown EXCEPT ![p][k] = v]
                                  ELSE shown
                      /\ accesses' =
                           [accesses EXCEPT
                              ![p] = Append(@, Access("load",
                                         U32Diff(PhysBase(p), Phys(p, ptr)),
                                         v))]
                      /\ nLoads' = [nLoads EXCEPT ![p] = Counted(p, @, 1)]
                      /\ pc' = [pc EXCEPT
                                  ![p] = IF k < 4 THEN LoadPc[k + 1]
                                         ELSE "display"]
                      /\ UNCHANGED status
             ELSE /\ pc' = [pc EXCEPT ![p] = "fault"]
                  /\ status' = [status EXCEPT ![p] = 139]
                  /\ UNCHANGED <<r, shown, accesses, nLoads>>
      /\ UNCHANGED <<running, hwOn, hwWrites, fd, win, reg, leds, msg,
                     handles, maps, mem, nOpen, nMmap, nMunmap, nClose, iters,
                     nStores, held>>

\* printf("\r"); printf of r0..r3; fflush(stdout); usleep(10000); }
\* (gpigpo: fflush(stdout); usleep(100000); })
Display(p) ==
    /\ pc[p] = "display"
    /\ shown' = IF p = Axi THEN [shown EXCEPT ![p] = r[p]] ELSE shown
    /\ iters' = [iters EXCEPT ![p] = Counted(p, @, 1)]
    /\ pc' = [pc EXCEPT ![p] = "loop"]
    /\ UNCHANGED <<running, hwOn, hwWrites, fd, win, reg, leds, r, msg,
                   status, handles, maps, mem, nOpen, nMmap, nMunmap, nClose,
                   accesses, nStores, nLoads, held>>

\* munmap(h2f_lw, H2F_LW_SIZE); close(fd); return 0;
\* The statements follow `while(true)`, which has no exit: no step of main()
\* leads to "unmap", and the action is no part of Next.
Unmap(p) ==
    /\ pc[p] = "unmap"
    /\ maps' = [maps EXCEPT ![p] = {m \in @ : m.va # win[p]}]
    /\ nMunmap' = [nMunmap EXCEPT ![p] = @ + 1]
    /\ handles' = [handles EXCEPT ![p] = CloseHandle(@, fd[p])]
    /\ nClose' = [nClose EXCEPT ![p] = @ + 1]
    /\ status' = [status EXCEPT ![p] = 0]
    /\ pc' = [pc EXCEPT ![p] = "exit"]
    /\ UNCHANGED <<running, hwOn, hwWrites, fd, win, reg, leds, r, shown, msg,
                   mem, nOpen, nMmap, accesses, iters, nStores, nLoads, held>>

-----------------------------------------------------------------------------
(* Specifications *)

Next ==
    \/ \E p \in running : OpenOk(p)
    \/ \E p \in running : OpenFail(p)
    \/ \E p \in running : MmapOk(p)
    \/ \E p \in running : MmapFail(p)
    \/ \E p \in running : GetPointers(p)
    \/ \E p \in running : Increment(p)
    \/ \E p \in running : Store(p)
    \/ \E p \in running : Load(p)
    \/ \E p \in running : Display(p)

\* one program, run for as long as it runs
Spec == Init /\ [][Next]_vars

\* the process is scheduled for as long as it has a step to take
FairSpec == Spec /\ WF_vars(Next)

\* the loop head, taken at most MaxConcIters times
IncrementBounded(p) ==
    /\ U32Less(leds[p], <<0, MaxConcIters>>)
    /\ Increment(p)

ConcNext ==
    \/ \E p \in running : OpenOk(p)
    \/ \E p \in running : OpenFail(p)
    \/ \E p \in running : MmapOk(p)
    \/ \E p \in running : MmapFail(p)
    \/ \E p \in running : GetPointers(p)
    \/ \E p \in running : IncrementBounded(p)
    \/ \E p \in running : Store(p)
    \/ \E p \in running : Load(p)
    \/ \E p \in running : Display(p)

\* both programs, interleaved in every way
ConcSpec == ConcInit /\ [][ConcNext]_vars

\* the hardware changes one register of a mapped window, at any moment
\* between two steps of the program
HwChange ==
    /\ hwOn
    /\ hwWrites < MaxHwWrites
    /\ \E p \in running : \E i \in 1 .. 4 : \E v \in HwValues :
         /\ maps[p] # {}
         /\ mem' = Store32(mem, U32Add(PhysBase(p), RegOffset(p)[i]), v)
         /\ mem' # mem
         /\ held' = Holding(p, held, mem')
    /\ hwWrites' = hwWrites + 1
    /\ UNCHANGED <<running, hwOn, pc, fd, win, reg, leds, r, shown, msg,
                   status, handles, maps, nOpen, nMmap, nMunmap, nClose,
                   accesses, iters, nStores, nLoads>>

\* the loop head, taken at most MaxHwIters times
IncrementHw(p) ==
    /\ U32Less(leds[p], <<0, MaxHwIters>>)
    /\ Increment(p)

HwNext ==
    \/ \E p \in running : OpenOk(p)
    \/ \E p \in running : OpenFail(p)
    \/ \E p \in running : MmapOk(p)
    \/ \E p \in running : MmapFail(p)
    \/ \E p \in running : GetPointers(p)
    \/ \E p \in running : IncrementHw(p)
    \/ \E p \in running : Store(p)
    \/ \E p \in running : Load(p)
    \/ \E p \in running : Display(p)
    \/ HwChange

\* one program, with the hardware changing registers under it
HwSpec == HwInit /\ [][HwNext]_vars

-----------------------------------------------------------------------------
(* Properties *)

OpenFailed(p) == nOpen[p] > 0 /\ fd[p] = -1

MmapFailed(p) == nMmap[p] > 0 /\ win[p] = MAP_FAILED

\* handle open and mapping live
FullyMapped(p) ==
    /\ fd[p] \in handles[p] \ StdHandles
    /\ win[p] # MAP_FAILED
    /\ maps[p] = {Mapping(win[p], WinSize(p), PhysBase(p))}

\* no handle, no mapping
FullyUnmapped(p) == handles[p] = StdHandles /\ maps[p] = {}

\* positions at which the register pointers are set
LoopPcs == {"loop", "store", "load1", "load2", "load3", "load4", "display"}

\* positions whose step accesses a register
AccessPcs == {"store", "load1", "load2", "load3", "load4"}

\* C1: when open succeeded and mmap failed, the descriptor opened in this
\* run is closed by the time the error is returned, and no run that ends in
\* a failure leaves a descriptor open or a mapping live.
C1_HandleClosedOnMmapFailure ==
    \A p \in running :
        /\ (pc[p] = "exit" /\ MmapFailed(p)) =>
               /\ fd[p] \notin handles[p]
               /\ nClose[p] = 1
               /\ FullyUnmapped(p)
        /\ (status[p] > 0) => FullyUnmapped(p)

C1_Witness ==
    \E p \in running :
        /\ pc[p] = "exit"
        /\ nOpen[p] = 1 /\ fd[p] >= 0
        /\ MmapFailed(p)
        /\ fd[p] \notin handles[p]

\* C2: when open fails, mmap is never called in that run and the failure
\* reported is the one of open, not the one of mmap.
C2_NoMmapAfterOpenFailure ==
    \A p \in running :
        OpenFailed(p) =>
            /\ nMmap[p] = 0
            /\ win[p] = NULL
            /\ msg[p] = OpenErrorMsg
            /\ msg[p] # MmapErrorMsg

C2_Witness ==
    \E p \in running : OpenFailed(p) /\ pc[p] = "exit" /\ status[p] = 1

\* C3: whenever a register is accessed the handle is open and the mapping is
\* live, whenever the program has exited there is neither, and no access
\* ever hits an address outside a live mapping.
C3_MappedWhenAccessed ==
    \A p \in running :
        /\ pc[p] \in AccessPcs => FullyMapped(p)
        /\ accesses[p] # <<>> => FullyMapped(p)
        /\ pc[p] = "exit" => FullyUnmapped(p) /\ accesses[p] = <<>>
        /\ pc[p] # "fault"
        /\ (OpenFailed(p) \/ MmapFailed(p)) => pc[p] \notin AccessPcs

C3_Witness ==
    \E p \in running :
        /\ pc[p] = "display"
        /\ Len(accesses[p]) = 5
        /\ FullyMapped(p)

\* C4: every window that was mapped is eventually unmapped: munmap and then
\* close are performed, each exactly once, and afterwards no descriptor is
\* open and no mapping remains.
C4_EventuallyUnmapped ==
    \A p \in Progs :
        (maps[p] # {}) ~>
            (/\ nMunmap[p] = 1
             /\ nClose[p] = 1
             /\ FullyUnmapped(p))

\* offset within the window of p of the register pointer ptr
OffsetOf(p, ptr) == U32Diff(win[p], ptr)

\* C5: every register offset the programs use is a multiple of 4 with
\* offset + 4 <= window length: 0, 4, 8, 12 in the 0x00200000-byte bridge
\* window and 0x00, 0x04, 0x10, 0x14 in the 0x1C-byte FPGA manager window.
C5_OffsetsAlignedInWindow ==
    \A p \in running :
        /\ pc[p] \in LoopPcs =>
             \A i \in 1 .. 4 :
                 /\ U32Leq(win[p], reg[p][i])
                 /\ OffsetOf(p, reg[p][i]) % 4 = 0
                 /\ OffsetOf(p, reg[p][i]) + 4 <= WinSize(p)
                 /\ OffsetOf(p, reg[p][i]) \in
                        (IF p = Axi THEN {0, 4, 8, 12}
                         ELSE {\h00, \h04, \h10, \h14})
        /\ \A i \in 1 .. Len(accesses[p]) :
                 /\ accesses[p][i].off % 4 = 0
                 /\ accesses[p][i].off >= 0
                 /\ accesses[p][i].off + 4 <= WinSize(p)
                 /\ accesses[p][i].off \in
                        (IF p = Axi THEN {0, 4, 8, 12}
                         ELSE {\h00, \h04, \h10, \h14})
        /\ WinSize(p) = (IF p = Axi THEN \h00200000 ELSE \h1C)

\* an iteration has accessed all four offsets of the window
C5_Witness ==
    \E p \in running :
        /\ pc[p] = "display"
        /\ {accesses[p][i].off : i \in 1 .. Len(accesses[p])} =
               {RegOffset(p)[i] : i \in 1 .. 4}
        /\ \E i \in 1 .. 4 : RegOffset(p)[i] + 4 >= WinSize(p) - 4

\* offsets that lie outside a window of len bytes
OutOfRangeOffsets(len) == {-4, -1, len - 3, len - 1, len, len + 4}

\* what the code does with a 4-byte access at offset off of the window of p:
\* it forms the pointer and dereferences it
AccessOutcome(p, off) ==
    IF InWindow(p, register_pointer(win[p], off)) THEN "access" ELSE "fault"

EchoValues == {<<\h0000, \h0000>>, <<\hFFFF, \hFFFF>>,
               <<\h0000, \h0001>>, <<\h8000, \h0000>>}

\* position in the load order of the register the loop stores to
ReadBack(p) == CHOOSE k \in 1 .. 4 : LoadOrder(p)[k] = StoreReg(p)

\* C7: with an echoing store and no other writer, a 32-bit store of V to a
\* register followed by a load of the same register yields V, for V in
\* {0, 0xFFFFFFFF, 1, 0x80000000}; and in every iteration the value read
\* back from the LED register is the value stored in that iteration.
C7_WriteThenReadEchoes ==
    \A p \in running :
        /\ pc[p] \in LoopPcs =>
             \A i \in 1 .. 4 : \A V \in EchoValues :
                 Load32(Store32(mem, Phys(p, reg[p][i]), V),
                        Phys(p, reg[p][i])) = V
        /\ Len(accesses[p]) >= 1 =>
             /\ accesses[p][1].op = "store"
             /\ accesses[p][1].val = leds[p]
             /\ \A j \in 2 .. Len(accesses[p]) :
                    accesses[p][j].off = accesses[p][1].off =>
                        accesses[p][j].val = leds[p]
        /\ pc[p] = "display" =>
             /\ r[p][ReadBack(p)] = leds[p]
             /\ p = Gpi => shown[p][ReadBack(p)] = leds[p]

C7_Witness ==
    \E p \in running :
        /\ pc[p] = "display"
        /\ leds[p] = <<0, \hFF>>
        /\ accesses[p][ReadBack(p) + 1] =
               Access("load", RegOffset(p)[StoreReg(p)], <<0, \hFF>>)
        /\ \E a \in DOMAIN mem : mem[a] # 0 /\ mem[a] # \hFF

\* the physical windows of the two programs do not overlap
WindowsDisjoint ==
    \/ U32Leq(U32Add(PhysBase(Axi), WinSize(Axi)), PhysBase(Gpi))
    \/ U32Leq(U32Add(PhysBase(Gpi), WinSize(Gpi)), PhysBase(Axi))

\* what loads through the window of p would return
WindowView(p) ==
    [o \in ModelledOffsets(p) |-> Load32(mem, U32Add(PhysBase(p), o))]

\* C8: the bridge window and the FPGA manager window do not overlap, and
\* when both programs run at once no step of one program changes anything
\* a load through the window of the other returns or has returned.
C8_NoInterference ==
    [][ /\ WindowsDisjoint
        /\ \A p \in Progs : \A q \in Progs \ {p} :
               pc'[q] # pc[q] =>
                   /\ WindowView(p)' = WindowView(p)
                   /\ r'[p] = r[p]
                   /\ shown'[p] = shown[p] ]_vars

\* both programs have stored to their windows, with different values
C8_Witness ==
    /\ running = Progs
    /\ \A p \in Progs : Len(accesses[p]) >= 1 /\ FullyMapped(p)
    /\ leds[Axi] # leds[Gpi]
    /\ WindowView(Axi)[RegOffset(Axi)[StoreReg(Axi)]] = leds[Axi]
    /\ WindowView(Gpi)[RegOffset(Gpi)[StoreReg(Gpi)]] = leds[Gpi]

\* what the caller of the program sees of a failure
Outcome(p) == <<msg[p], status[p]>>

C10_FailedMapIsTerminal ==
    \A p \in running :
        /\ nOpen[p] <= 1
        /\ nMmap[p] <= 1
        /\ OpenFailed(p) => nMmap[p] = 0
        /\ (OpenFailed(p) \/ MmapFailed(p)) =>
               /\ pc[p] = "exit"
               /\ status[p] > 0
               /\ accesses[p] = <<>>
               /\ \A i \in 1 .. 4 : reg[p][i] = NULL

C10_Witness ==
    \E p \in running :
        /\ MmapFailed(p)
        /\ nOpen[p] = 1 /\ nMmap[p] = 1
        /\ pc[p] = "exit" /\ status[p] = 1

\* the four values loaded in the iteration, in declaration order of the
\* registers
Loaded(p) ==
    [i \in 1 .. 4 |-> r[p][CHOOSE k \in 1 .. 4 : LoadOrder(p)[k] = i]]

\* the iteration has read a tuple the registers never held at one time
Torn(p) == pc[p] = "display" /\ Loaded(p) \notin held[p]

\* the value read back from the LED register is not the value just stored
ReadBackDiffers(p) == pc[p] = "display" /\ r[p][ReadBack(p)] # leds[p]

\* C11: with hardware changing registers between two accesses, the four
\* values of an iteration can form a tuple the registers never held at one
\* time and the value read back can differ from the value just stored
\* (C11_Witness); each single value read was held by its register, and
\* neither effect occurs unless the hardware has written.
C11_TornOnlyByHardware ==
    \A p \in running :
        /\ pc[p] = "display" =>
               \A i \in 1 .. 4 : \E t \in held[p] : t[i] = Loaded(p)[i]
        /\ (Torn(p) \/ ReadBackDiffers(p)) => hwWrites > 0

C11_Witness ==
    \E p \in running : Torn(p) /\ ReadBackDiffers(p)

\* number of accesses of kind op in the log of the current iteration
CountOp(p, op) ==
    Cardinality({j \in 1 .. Len(accesses[p]) : accesses[p][j].op = op})

\* number of loads from offset off in the log of the current iteration
CountLoadsAt(p, off) ==
    Cardinality({j \in 1 .. Len(accesses[p]) :
                    accesses[p][j].op = "load" /\ accesses[p][j].off = off})

ProgramOrder(p) ==
    IF p = Axi
    THEN << <<"store", 0>>, <<"load", 0>>, <<"load", 4>>,
            <<"load", 8>>, <<"load", 12>> >>
    ELSE << <<"store", \h10>>, <<"load", \h00>>, <<"load", \h04>>,
            <<"load", \h14>>, <<"load", \h10>> >>

LedAddr(p) == U32Add(PhysBase(p), RegOffset(p)[StoreReg(p)])

\* the step of p that stores to the LED register
StoreStep(p) == pc[p] = "store" /\ pc'[p] = LoadPc[1]

\* C14: every value stored to the LED register is within 0 .. 0xFF, the
\* first one is 1, and each is the previous one plus 1 modulo 256: the
\* stored values run 1, 2, ..., 255, 0 and repeat with period 256.
C14_LedCounterOneByte ==
    [][ \A p \in Progs :
          StoreStep(p) =>
              LET old == Load32(mem, LedAddr(p))
                  new == Load32(mem', LedAddr(p))
              IN  /\ new = leds[p]
                  /\ new[1] = 0
                  /\ new[2] \in 0 .. \hFF
                  /\ iters[p] = 0 => new = <<0, 1>>
                  /\ iters[p] > 0 =>
                         old[1] = 0 /\ new[2] = (old[2] + 1) % 256 ]_vars

\* the counter has wrapped: 0 has been stored after 255
C14_Witness ==
    \E p \in running :
        /\ pc[p] = LoadPc[1]
        /\ iters[p] = MaxCount
        /\ accesses[p] = <<Access("store", RegOffset(p)[StoreReg(p)],
                                  <<0, 0>>)>>
        /\ Load32(mem, LedAddr(p)) = <<0, 0>>

\* the bytes of the one register program p stores to: offset 0 of the
\* bridge window, offset 0x10 (GPO) of the FPGA manager window
StoredBytes(p) ==
    {U32Add(PhysBase(p), (IF p = Axi THEN 0 ELSE \h10) + k) : k \in 0 .. 3}

\* C15: a program stores to one register only, axi3_h2f_lw to offset 0 and
\* gpigpo to GPO at offset 0x10; every other location of the windows is
\* left unchanged by every step of the program.
C15_StoresToOneRegisterOnly ==
    [][ /\ \A a \in DOMAIN mem :
             mem'[a] # mem[a] =>
                 \E p \in running : StoreStep(p) /\ a \in StoredBytes(p)
        /\ \A p \in running : \A j \in 1 .. Len(accesses'[p]) :
             accesses'[p][j].op = "store" =>
                 accesses'[p][j].off = (IF p = Axi THEN 0 ELSE \h10) ]_vars

\* after some iterations the LED register holds the counter and every other
\* byte still holds what it held at the start
C15_Witness ==
    \E p \in running :
        /\ pc[p] = "display"
        /\ iters[p] >= 2
        /\ Load32(mem, LedAddr(p)) = leds[p]
        /\ \A a \in DOMAIN mem \ StoredBytes(p) :
               mem[a] = (a[1] + a[2]) % 256 /\ mem[a] # 0
        /\ \E a \in StoredBytes(p) : mem[a] # (a[1] + a[2]) % 256

====
